---- MODULE Spec2Model ----
(***************************************************************************)
(* A model of patchsim's compartmental / network simulation engine         *)
(* (src/src/patchsim/core/model.py): CompartmentalModel and NetworkModel.  *)
(*                                                                         *)
(* Numbers.  The engine computes with Python floats and numpy float64.     *)
(* A number is modelled as an exact rational <<n, d>> in lowest terms with *)
(* d > 0, extended by the three IEEE specials that numpy's division        *)
(* produces instead of raising: <<0,0>> is nan, <<1,0>> is +inf and        *)
(* <<-1,0>> is -inf.  Rounding of finite floats is not modelled.           *)
(*                                                                         *)
(* Keys.  The qualified key f"{c}_{i}" is modelled as the pair <<c, i>>.   *)
(* Patches are numbered from 0 as in the code; sequences are 1-based, so   *)
(* lambdas[i] of the code is lambdas[i + 1] here.                          *)
(***************************************************************************)
EXTENDS Integers, Sequences, FiniteSets, TLC

VARIABLES
    base,        \* self.base_model: [compartments, parameters, transitions]
    network,     \* self.network: num_patches x num_patches matrix
    y0_dict,     \* the caller's initial full state
    t_range,     \* the caller's time grid
    state,       \* simulate_discrete: local `state`
    new_state,   \* simulate_discrete: local `new_state`
    lambdas,     \* simulate_discrete: local `lambdas`
    deltas,      \* simulate_discrete: local `deltas` (last value returned)
    history,     \* simulate_discrete: local `history`
    state_obj,   \* simulate_discrete: the dict object `state` is bound to
    new_state_obj, \* simulate_discrete: the dict object `new_state` is bound to
    i,           \* simulate_discrete: patch loop index
    tidx,        \* simulate_discrete: number of grid points consumed
    mode,        \* the entry point called: "", "discrete" or "ode"
    y,           \* simulate_ode: the point at which the solver evaluates rhs
    dydt,        \* simulate_ode: the last value rhs returned
    sol,         \* simulate_ode: the rows of the solver's matrix so far
    sim,         \* the Simulation orchestrator: [mode, network, odesolver]
    patches,     \* run_simulation: the list of patch records
    seed,        \* apply_seeding_infections: the seed of the list being applied
    current_date, \* run_simulation: the date seeding is applied for
    seed_idx,    \* apply_seeding_infections: seeds processed so far
    params,      \* the SIRSV model: the params dict of a run
    sirsv,       \* the SIRSV model: the locals of a run
    pc,          \* position: "start", "loop", "patch", "solver", "advance",
                 \* "done", "error"; "seeding", "seeded", "ready"
    err          \* the exception that ended the run, "" if none

vars == <<base, network, y0_dict, t_range, state, new_state, lambdas, deltas,
          history, state_obj, new_state_obj, i, tidx, mode, y, dydt, sol, sim,
          patches, seed, current_date, seed_idx, params, sirsv, pc, err>>

\* Longest time grid has MaxSteps + 1 points.
MaxSteps == 2

----------------------------------------------------------------------------
(* Arithmetic *)

Abs(n) == IF n < 0 THEN -n ELSE n

Sign(n) == IF n < 0 THEN -1 ELSE IF n > 0 THEN 1 ELSE 0

RECURSIVE GCD(_, _)
GCD(a, b) == IF b = 0 THEN a ELSE GCD(b, a % b)

\* lowest terms; a zero denominator keeps only the sign of the numerator
Norm(n, d) ==
    IF d = 0 THEN <<Sign(n), 0>>
    ELSE LET g == GCD(Abs(n), Abs(d))
         IN  <<(Sign(d) * n) \div g, Abs(d) \div g>>

Zero == <<0, 1>>
One == <<1, 1>>
NaN == <<0, 0>>
Inf == <<1, 0>>
Rat(n, d) == Norm(n, d)

IsFinite(x) == x[2] # 0
IsNaN(x) == x = NaN

RNeg(x) == <<-x[1], x[2]>>

\* x * y  (inf * 0 = nan, nan absorbs)
RMul(x, z) ==
    IF x[2] = 0 \/ z[2] = 0 THEN <<Sign(x[1]) * Sign(z[1]), 0>>
    ELSE LET g1 == GCD(Abs(x[1]), z[2])
             g2 == GCD(Abs(z[1]), x[2])
         IN  Norm((x[1] \div g1) * (z[1] \div g2), (x[2] \div g2) * (z[2] \div g1))

\* x + y  (inf + -inf = nan, nan absorbs)
RAdd(x, z) ==
    IF IsNaN(x) \/ IsNaN(z) THEN NaN
    ELSE IF x[2] = 0 THEN (IF z[2] = 0 /\ z[1] # x[1] THEN NaN ELSE x)
    ELSE IF z[2] = 0 THEN z
    ELSE LET g == GCD(x[2], z[2])
             l == (x[2] \div g) * z[2]
         IN  Norm(x[1] * (l \div x[2]) + z[1] * (l \div z[2]), l)

RSub(x, z) == RAdd(x, RNeg(z))

\* numpy's x / y: a zero divisor gives inf or nan (with a RuntimeWarning),
\* never an exception
RDiv(x, z) ==
    IF IsNaN(x) \/ IsNaN(z) THEN NaN
    ELSE IF z[2] = 0 THEN (IF x[2] = 0 THEN NaN ELSE Zero)
    ELSE IF z[1] = 0 THEN <<Sign(x[1]), 0>>
    ELSE IF x[2] = 0 THEN <<x[1] * Sign(z[1]), 0>>
    ELSE RMul(x, <<Sign(z[1]) * z[2], Abs(z[1])>>)

\* Python's v >= 0 (False for nan)
RGe0(x) == x # NaN /\ x[1] >= 0

\* Python's max(v, 0): 0 only if 0 > v, so nan is returned unchanged
RMax0(v) == IF v[1] < 0 THEN Zero ELSE v

\* x < 0, minus infinity included
RLt0(x) == x[1] < 0

\* a < b
RLt(a, b) == RSub(b, a)[1] > 0

\* Python's sum(...) of a sequence of numbers, left to right from 0
RECURSIVE RSumFrom(_, _, _)
RSumFrom(acc, s, k) ==
    IF k > Len(s) THEN acc ELSE RSumFrom(RAdd(acc, s[k]), s, k + 1)

RSum(s) == RSumFrom(Zero, s, 1)

----------------------------------------------------------------------------
(* Dictionaries *)

\* The merge as a bug would have it: a's entries win
MergeKeepFirst(a, b) ==
    [k \in DOMAIN a \cup DOMAIN b |-> IF k \in DOMAIN a THEN a[k] ELSE b[k]]

\* {**a, **b} and a.update(b): b's entries override a's
Merge(a, b) ==
    [k \in DOMAIN a \cup DOMAIN b |-> IF k \in DOMAIN b THEN b[k] ELSE a[k]]

\* An insertion-ordered dict as a sequence of <<key, value>> pairs.
DictKeys(d) == [k \in 1..Len(d) |-> d[k][1]]

DictHas(d, key) == \E k \in 1..Len(d) : d[k][1] = key

DictGet(d, key) == d[CHOOSE k \in 1..Len(d) : d[k][1] = key][2]

\* DictSet as a bug would have it: an updated key moves to the end
DictSetMoveToEnd(d, key, v) ==
    Append(SelectSeq(d, LAMBDA e : e[1] # key), <<key, v>>)

\* d[key] = v: replaces in place, or appends a new key at the end
DictSet(d, key, v) ==
    IF DictHas(d, key)
    THEN [k \in 1..Len(d) |-> IF d[k][1] = key THEN <<key, v>> ELSE d[k]]
    ELSE Append(d, <<key, v>>)

----------------------------------------------------------------------------
(* CompartmentalModel *)

\* A falsy tr['from'] / tr['to'] (None): no compartment on that end.
None == ""

\* A rate expression is a product of names, "a * b * c", written <<"a","b","c">>.
\* Names Python's builtins module defines: eval(expr, {}, local_env) falls
\* back to them for a name local_env lacks.  __debug__ is the constant True.
BuiltinFunctions == {"abs"}
BuiltinConstants == {"__debug__"}

\* the value of one name: [err, kind, v]
Lookup(name, local_env) ==
    IF name \in DOMAIN local_env
    THEN [err |-> "", kind |-> "num", v |-> local_env[name]]
    ELSE IF name \in BuiltinConstants
    THEN [err |-> "", kind |-> "num", v |-> One]
    ELSE IF name \in BuiltinFunctions
    THEN [err |-> "", kind |-> "fn", v |-> Zero]
    ELSE [err |-> "NameError", kind |-> "", v |-> Zero]

\* left-to-right evaluation of the product from factor k on
RECURSIVE EvalFrom(_, _, _, _)
EvalFrom(acc, rate_expr, k, local_env) ==
    IF k > Len(rate_expr) THEN acc
    ELSE LET l == Lookup(rate_expr[k], local_env)
         IN  IF l.err # "" THEN l
             ELSE IF acc.kind = "fn" \/ l.kind = "fn"
             THEN [err |-> "TypeError", kind |-> "", v |-> Zero]
             ELSE EvalFrom([err |-> "", kind |-> "num", v |-> RMul(acc.v, l.v)],
                           rate_expr, k + 1, local_env)

\* eval(rate_expr, {}, local_env)
Eval(rate_expr, local_env) ==
    LET first == Lookup(rate_expr[1], local_env)
    IN  IF first.err # "" THEN first
        ELSE EvalFrom(first, rate_expr, 2, local_env)

\* deltas[key] -= rate (sign = -1) or deltas[key] += rate (sign = 1)
Accumulate(d, key, rate, sign) ==
    IF ~DictHas(d, key) THEN [err |-> "KeyError", deltas |-> <<>>]
    ELSE IF rate.kind = "fn" THEN [err |-> "TypeError", deltas |-> <<>>]
    ELSE [err |-> "",
          deltas |-> DictSet(d, key,
                        IF sign < 0 THEN RSub(DictGet(d, key), rate.v)
                                    ELSE RAdd(DictGet(d, key), rate.v))]

\* one pass of `for tr in self.transitions`
ApplyTransition(d, tr, local_env) ==
    LET rate == Eval(tr.rate, local_env)
    IN  IF rate.err # "" THEN [err |-> rate.err, deltas |-> <<>>]
        ELSE LET a == IF tr.from # None THEN Accumulate(d, tr.from, rate, -1)
                      ELSE [err |-> "", deltas |-> d]
             IN  IF a.err # "" THEN a
                 ELSE IF tr.to # None THEN Accumulate(a.deltas, tr.to, rate, 1)
                 ELSE a

RECURSIVE TransitionLoop(_, _, _, _)
TransitionLoop(d, transitions, k, local_env) ==
    IF k > Len(transitions) THEN [err |-> "", deltas |-> d]
    ELSE LET r == ApplyTransition(d, transitions[k], local_env)
         IN  IF r.err # "" THEN r
             ELSE TransitionLoop(r.deltas, transitions, k + 1, local_env)

\* {c: 0.0 for c in self.compartments}
RECURSIVE ZeroDeltas(_, _, _)
ZeroDeltas(d, compartments, k) ==
    IF k > Len(compartments) THEN d
    ELSE ZeroDeltas(DictSet(d, compartments[k], Zero), compartments, k + 1)

\* lines 64-65: the dicts in play once the environment is built.  Line 64
\* makes a new dict, local_env = {**state, **self.parameters}; line 65,
\* local_env.update(extras), writes to that dict.
EnvObjects(m, st, extras) ==
    LET made == [state      |-> st,
                 parameters |-> m.parameters,
                 extras     |-> extras,
                 local_env  |-> Merge(st, m.parameters)]
    IN  [made EXCEPT !.local_env = Merge(@, extras)]

\* the environment the rates are evaluated in
LocalEnv(m, st, extras) == EnvObjects(m, st, extras).local_env

\* CompartmentalModel.compute_transition_rates(state, extras):
\* [err, deltas]; err = "" when it returns
compute_transition_rates(m, st, extras) ==
    TransitionLoop(ZeroDeltas(<<>>, m.compartments, 1), m.transitions, 1,
                   LocalEnv(m, st, extras))

----------------------------------------------------------------------------
(* NetworkModel *)

Key(c, p) == <<c, p>>

\* [f"{c}_{i}" for i in range(num_patches) for c in base_model.compartments]
all_compartments(m, num_patches) ==
    LET nc == Len(m.compartments)
    IN  [k \in 1..(num_patches * nc) |->
            Key(m.compartments[((k - 1) % nc) + 1], (k - 1) \div nc)]

\* N_j = sum(full_state[f"{c}_{j}"] for c in self.base_model.compartments)
PatchTotal(m, full_state, j) ==
    RSum([k \in 1..Len(m.compartments) |-> full_state[Key(m.compartments[k], j)]])

\* ForceTerm as a bug would have it: divided by the receiving patch's total
ForceTermOwnTotal(m, net, full_state, p, j) ==
    RDiv(RMul(net[p + 1][j + 1], full_state[Key("I", j)]),
         PatchTotal(m, full_state, p))

\* ForceTerm as a bug would have it: the network weight left out
ForceTermUnweighted(m, net, full_state, p, j) ==
    RDiv(full_state[Key("I", j)], PatchTotal(m, full_state, j))

\* the term network[i][j] * I_j / N_j
ForceTerm(m, net, full_state, p, j) ==
    RDiv(RMul(net[p + 1][j + 1], full_state[Key("I", j)]),
         PatchTotal(m, full_state, j))

\* ForceFrom as a bug would have it: only the patches j >= p are summed
RECURSIVE ForceFromUpper(_, _, _, _, _, _, _)
ForceFromUpper(force, m, num_patches, net, full_state, p, j) ==
    IF j >= num_patches THEN force
    ELSE ForceFromUpper(IF j < p THEN force
                        ELSE RAdd(force, RDiv(RMul(net[p + 1][j + 1],
                                                   full_state[Key("I", j)]),
                                              PatchTotal(m, full_state, j))),
                        m, num_patches, net, full_state, p, j + 1)

\* the inner loop over j for patch p: force += term
RECURSIVE ForceFrom(_, _, _, _, _, _, _)
ForceFrom(force, m, num_patches, net, full_state, p, j) ==
    IF j >= num_patches THEN force
    ELSE ForceFrom(RAdd(force, ForceTerm(m, net, full_state, p, j)),
                   m, num_patches, net, full_state, p, j + 1)

\* NetworkModel.compute_force_of_infection(full_state): [err, lambdas]
compute_force_of_infection(m, num_patches, net, full_state) ==
    IF num_patches > 0 /\ Key("I", 0) \notin DOMAIN full_state
    THEN [err |-> "KeyError", lambdas |-> <<>>]
    ELSE [err |-> "",
          lambdas |-> [p \in 1..num_patches |->
                          ForceFrom(Zero, m, num_patches, net, full_state, p - 1, 0)]]

\* patch_state = {c: state[f"{c}_{i}"] for c in self.base_model.compartments}
PatchState(m, full_state, p) ==
    [c \in {m.compartments[k] : k \in 1..Len(m.compartments)} |->
        full_state[Key(c, p)]]

\* extras = {"lambda_i": lambdas[i]}
Extras(lam, p) == [n \in {"lambda_i"} |-> lam[p + 1]]

\* AddDeltas as a bug would have it: the delta times the length of the grid
\* interval of the step
AddDeltasScaled(ns, d, p) ==
    [key \in DOMAIN ns |->
        IF key[2] = p /\ DictHas(d, key[1])
        THEN RAdd(ns[key], RMul(Rat(t_range[tidx + 1] - t_range[tidx], 1),
                                DictGet(d, key[1])))
        ELSE ns[key]]

\* AddDeltas as a bug would have it: the delta replaces the value
AddDeltasAssign(ns, d, p) ==
    [key \in DOMAIN ns |->
        IF key[2] = p /\ DictHas(d, key[1]) THEN DictGet(d, key[1]) ELSE ns[key]]

\* new_state[f"{c}_{i}"] += delta for c, delta in deltas.items()
AddDeltas(ns, d, p) ==
    [key \in DOMAIN ns |->
        IF key[2] = p /\ DictHas(d, key[1])
        THEN RAdd(ns[key], DictGet(d, key[1])) ELSE ns[key]]

\* PatchApply as a bug would have it: the force of infection recomputed from
\* the partly updated new state, and the patch read from it
PatchApplyFresh(m, ns, st, lam, p) ==
    LET f == compute_force_of_infection(m, Len(lam), network, ns)
        r == compute_transition_rates(m, PatchState(m, ns, p), Extras(f.lambdas, p))
    IN  IF r.err # "" THEN [err |-> r.err, new_state |-> ns, deltas |-> <<>>]
        ELSE [err |-> "", new_state |-> AddDeltas(ns, r.deltas, p),
              deltas |-> r.deltas]

\* the body of `for i in range(self.num_patches)` for patch p:
\* deltas from the pre-step state st and the force vector lam, added into ns
PatchApply(m, ns, st, lam, p) ==
    LET r == compute_transition_rates(m, PatchState(m, st, p), Extras(lam, p))
    IN  IF r.err # "" THEN [err |-> r.err, new_state |-> ns, deltas |-> <<>>]
        ELSE [err |-> "", new_state |-> AddDeltas(ns, r.deltas, p),
              deltas |-> r.deltas]

\* The clamp as a bug would have it: no floor
Unclamped(ns) == ns

\* state = {k: max(v, 0) for k, v in new_state.items()}
Clamp(ns) == [key \in DOMAIN ns |-> RMax0(ns[key])]

\* [d[c] for c in self.all_compartments]
Flatten(m, n, d) ==
    [k \in 1..(n * Len(m.compartments)) |-> d[all_compartments(m, n)[k]]]

\* {c: y[i] for i, c in enumerate(self.all_compartments)}
Unflatten(m, n, yv) ==
    [key \in {all_compartments(m, n)[k] : k \in 1..(n * Len(m.compartments))} |->
        yv[CHOOSE k \in 1..(n * Len(m.compartments)) : all_compartments(m, n)[k] = key]]

\* The loop as a bug would have it: each patch's derivatives in reverse
\* compartment order
RECURSIVE RhsLoopReversed(_, _, _, _, _, _)
RhsLoopReversed(out, m, n, st, lam, p) ==
    IF p >= n THEN [err |-> "", dydt |-> out]
    ELSE LET r == compute_transition_rates(m, PatchState(m, st, p), Extras(lam, p))
             nc == Len(m.compartments)
         IN  IF r.err # "" THEN [err |-> r.err, dydt |-> <<>>]
             ELSE RhsLoopReversed(out \o [k \in 1..nc |->
                                     DictGet(r.deltas, m.compartments[nc + 1 - k])],
                                  m, n, st, lam, p + 1)

\* lines 154-159: dydt.append(deltas[c]) for every patch, every compartment
RECURSIVE RhsLoop(_, _, _, _, _, _)
RhsLoop(out, m, n, st, lam, p) ==
    IF p >= n THEN [err |-> "", dydt |-> out]
    ELSE LET r == compute_transition_rates(m, PatchState(m, st, p), Extras(lam, p))
         IN  IF r.err # "" THEN [err |-> r.err, dydt |-> <<>>]
             ELSE RhsLoop(out \o [k \in 1..Len(m.compartments) |->
                                     DictGet(r.deltas, m.compartments[k])],
                          m, n, st, lam, p + 1)

\* the function rhs(y, t) that simulate_ode hands to the solver: [err, dydt]
rhs(m, n, net, yv) ==
    LET st == Unflatten(m, n, yv)
        f  == compute_force_of_infection(m, n, net, st)
    IN  IF f.err # "" THEN [err |-> f.err, dydt |-> <<>>]
        ELSE RhsLoop(<<>>, m, n, st, f.lambdas, 0)

\* the solver: one explicit Euler step of size h from yv
EulerStep(yv, dy, h) ==
    [k \in 1..Len(yv) |-> RAdd(yv[k], RMul(Rat(h, 1), dy[k]))]

\* The mapping as a bug would have it: the discrete mode's floor applied
ColumnsClamped(m, n, matrix) ==
    [key \in {all_compartments(m, n)[k] : k \in 1..(n * Len(m.compartments))} |->
        [row \in 1..Len(matrix) |->
            RMax0(matrix[row][CHOOSE k \in 1..(n * Len(m.compartments)) :
                                  all_compartments(m, n)[k] = key])]]

\* history = {c: sol[:, i] for i, c in enumerate(self.all_compartments)}
Columns(m, n, matrix) ==
    [key \in {all_compartments(m, n)[k] : k \in 1..(n * Len(m.compartments))} |->
        [row \in 1..Len(matrix) |->
            matrix[row][CHOOSE k \in 1..(n * Len(m.compartments)) :
                            all_compartments(m, n)[k] = key]]]

----------------------------------------------------------------------------
(* The runs explored: base models, networks, initial states, time grids *)

Tr(src, dst, rate_expr) == [from |-> src, to |-> dst, rate |-> rate_expr]

\* the SIR model of models/sample-sir-ode.py
SIR(beta, gamma) ==
    [compartments |-> <<"S", "I", "R">>,
     parameters   |-> [beta |-> beta, gamma |-> gamma],
     transitions  |-> <<Tr("S", "I", <<"beta", "S", "lambda_i">>),
                        Tr("I", "R", <<"gamma", "I">>)>>]

\* the second transition of SIR replaced
SIRWith(tr) ==
    [SIR(Rat(1, 2), Rat(1, 2)) EXCEPT !.transitions = <<@[1], tr>>]

\* births into S, deaths out of I: transitions with one end only
Vital ==
    [compartments |-> <<"S", "I">>,
     parameters   |-> [beta |-> Rat(1, 2), nu |-> Rat(1, 2), mu |-> One],
     transitions  |-> <<Tr(None, "S", <<"nu", "S">>),
                        Tr("S", "I", <<"beta", "S", "lambda_i">>),
                        Tr("I", None, <<"mu", "I">>)>>]

\* no compartment named I
NoInfected ==
    [compartments |-> <<"S", "R">>,
     parameters   |-> [gamma |-> Rat(1, 2)],
     transitions  |-> <<Tr("S", "R", <<"gamma", "S">>)>>]

\* names that collide: I is a compartment and a parameter, lambda_i is a
\* compartment, a parameter and the extra
Shadowed ==
    [compartments |-> <<"S", "I", "lambda_i">>,
     parameters   |-> [beta |-> Rat(1, 2), I |-> Rat(1, 2), lambda_i |-> Rat(2, 1)],
     transitions  |-> <<Tr("S", "I", <<"beta", "S", "lambda_i">>),
                        Tr("I", "lambda_i", <<"I">>)>>]

ExampleModel == SIR(Rat(3, 10), Rat(1, 10))

Models ==
    { SIR(Rat(1, 2), Rat(1, 2)),
      SIR(Rat(1, 2), Rat(2, 1)),                     \* overshoots: I goes negative
      SIRWith(Tr("I", "I", <<"gamma", "I">>)),       \* from = to
      SIRWith(Tr("I", "R", <<"delta", "I">>)),       \* delta is defined nowhere
      SIRWith(Tr("I", "R", <<"gamma", "I", "__debug__">>)),
      SIRWith(Tr("I", "R", <<"gamma", "abs">>)),
      SIRWith(Tr("I", "X", <<"gamma", "I">>)),       \* X is no compartment
      Vital,
      NoInfected,
      Shadowed }

\* every transition of m has both ends set
Closed(m) ==
    \A k \in 1..Len(m.transitions) :
        m.transitions[k].from # None /\ m.transitions[k].to # None

Half == Rat(1, 2)
Two == Rat(2, 1)

\* network matrices for two patches
Networks2 ==
    { <<<<Zero, Zero>>, <<Zero, Zero>>>>,
      <<<<One, Zero>>, <<Zero, One>>>>,
      <<<<One, Half>>, <<Half, One>>>>,
      <<<<One, Half>>, <<Half, Two>>>>,
      <<<<Zero, One>>, <<Zero, Zero>>>>,
      <<<<Half, One>>, <<Two, Zero>>>> }

Network1 == <<<<One>>>>

Network3 ==
    <<<<One, Half, Zero>>, <<Zero, One, Half>>, <<Half, Zero, One>>>>

\* initial values of one patch, in compartment order
PatchInits == { <<3, 1, 0>>, <<2, 2, 0>>, <<0, 2, 0>>, <<0, 0, 0>> }

IndexOf(seq, x) == CHOOSE k \in 1..Len(seq) : seq[k] = x

\* the full state in which patch p starts from inits[p + 1]
FullState(m, inits) ==
    [key \in {Key(m.compartments[k], p) :
                 k \in 1..Len(m.compartments), p \in 0..(Len(inits) - 1)} |->
        Rat(inits[key[2] + 1][IndexOf(m.compartments, key[1])], 1)]

\* time grids: 0, 1, 2, ... of 0 to MaxSteps + 1 points, and the coarser
\* 0, 2, 4, ... of 2 to MaxSteps points
Grids ==
    { [k \in 1..n |-> k - 1] : n \in 0..(MaxSteps + 1) } \cup
    { [k \in 1..n |-> 2 * (k - 1)] : n \in 2..MaxSteps }

ExampleInit == <<99, 1, 0>>

num_patches == Len(network)

----------------------------------------------------------------------------
(* NetworkModel.simulate_discrete as a process *)

Unset == <<>>

\* Dict objects.  A dict is a mutable object; two names bound to the same
\* object see each other's writes.  An object is named by where it was made.
CallerObj == <<"y0_dict", 0>>
NoObj == <<"", 0>>

\* Copy as a bug would have it: no copy, the same object
Alias(obj, fresh) == obj

\* obj.copy(): a new object
Copy(obj, fresh) == fresh

\* no Simulation object: the NetworkModel is called directly
NoSimulation == [mode |-> "", network |-> FALSE, odesolver |-> FALSE]

\* the state of run_simulation's seeding while the engine runs
seeding == <<patches, seed, current_date, seed_idx>>

\* before the first seed of the list
NoSeed == [region |-> "", date |-> 0, seed_count |-> 0]

NoSeeding ==
    /\ patches = <<>>
    /\ seed = NoSeed
    /\ current_date = 0
    /\ seed_idx = 0

\* the state of the SIRSV model while the engine runs
fmd == <<params, sirsv>>

NoFmd ==
    /\ params = <<>>
    /\ sirsv = <<>>

\* a NetworkModel, an initial state and a time grid, no run begun
Loaded(m, net, inits, grid) ==
    /\ base = m
    /\ network = net
    /\ y0_dict = FullState(m, inits)
    /\ t_range = grid
    /\ state = Unset
    /\ new_state = Unset
    /\ lambdas = Unset
    /\ deltas = Unset
    /\ history = Unset
    /\ state_obj = NoObj
    /\ new_state_obj = NoObj
    /\ i = 0
    /\ tidx = 0
    /\ mode = ""
    /\ y = Unset
    /\ dydt = Unset
    /\ sol = Unset
    /\ err = ""

Start(m, net, inits, grid) ==
    /\ Loaded(m, net, inits, grid)
    /\ pc = "start"

Scenario ==
    \/ \E m \in Models, net \in Networks2, a \in PatchInits, b \in PatchInits,
          grid \in Grids :
          Start(m, net, <<a, b>>, grid)
    \/ \E a \in PatchInits, grid \in Grids :
          Start(SIR(Half, Half), Network1, <<a>>, grid)
    \/ \E a \in PatchInits, grid \in Grids :
          Start(SIR(Half, Half), Network3, <<a, <<3, 1, 0>>, <<2, 2, 0>>>>, grid)
    \/ Start(ExampleModel, <<<<One, Zero>>, <<Zero, One>>>>,
             <<ExampleInit, ExampleInit>>, <<0, 1>>)

Init ==
    /\ Scenario
    /\ sim = NoSimulation
    /\ NoSeeding
    /\ NoFmd

\* what a run of the engine only reads, and what belongs to other components
config == <<base, network, t_range, sim, seeding, fmd>>

\* the locals of simulate_discrete (history is shared with simulate_ode)
discrete == <<state, new_state, lambdas, deltas, state_obj, new_state_obj, i>>

\* the locals of simulate_ode and its solver
ode == <<y, dydt, sol>>

Raise(e) ==
    /\ pc' = "error"
    /\ err' = e

\* lines 117-118: state = y0_dict.copy(); history = {c: [state[c]] ...}
simulate_discrete ==
    /\ pc = "start"
    /\ state' = y0_dict
    /\ state_obj' = Copy(CallerObj, <<"state", 0>>)
    /\ history' = [key \in {all_compartments(base, num_patches)[k] :
                              k \in 1..(num_patches * Len(base.compartments))} |->
                      <<y0_dict[key]>>]
    /\ tidx' = 1
    /\ mode' = "discrete"
    /\ pc' = "loop"
    /\ UNCHANGED <<config, y0_dict, new_state, new_state_obj, lambdas, deltas, i,
                   err, ode>>

\* lines 120-122: next t of t_range[1:]; new_state = state.copy();
\* lambdas = self.compute_force_of_infection(state)
BeginStep ==
    /\ pc = "loop"
    /\ tidx < Len(t_range)
    /\ LET f == compute_force_of_infection(base, num_patches, network, state)
       IN  IF f.err # ""
           THEN /\ Raise(f.err)
                /\ UNCHANGED <<new_state, new_state_obj, lambdas, i>>
           ELSE /\ new_state' = state
                /\ new_state_obj' = Copy(state_obj, <<"new_state", tidx>>)
                /\ lambdas' = f.lambdas
                /\ i' = 0
                /\ pc' = "patch"
                /\ err' = err
    /\ UNCHANGED <<config, y0_dict, state, state_obj, deltas, history, tidx, mode,
                   ode>>

\* lines 124-132: one pass of the loop over the patches
PatchStep ==
    /\ pc = "patch"
    /\ i < num_patches
    /\ LET r == PatchApply(base, new_state, state, lambdas, i)
       IN  IF r.err # ""
           THEN /\ Raise(r.err)
                /\ UNCHANGED <<new_state, state, y0_dict, deltas, i>>
           ELSE /\ new_state' = r.new_state
                /\ state' = IF state_obj = new_state_obj THEN r.new_state
                                                          ELSE state
                /\ y0_dict' = IF new_state_obj = CallerObj THEN r.new_state
                                                            ELSE y0_dict
                /\ deltas' = r.deltas
                /\ i' = i + 1
                /\ UNCHANGED <<pc, err>>
    /\ UNCHANGED <<config, state_obj, new_state_obj, lambdas, history, tidx, mode,
                   ode>>

\* The append as a bug would have it: the newest entry is replaced
AppendStepOverwrite(h, st) ==
    [key \in DOMAIN h |-> [h[key] EXCEPT ![Len(h[key])] = st[key]]]

\* lines 136-137: for c in self.all_compartments: history[c].append(state[c])
AppendStep(h, st) ==
    [key \in DOMAIN h |-> Append(h[key], st[key])]

\* lines 134-137: clamp, then append the step to the history
EndStep ==
    /\ pc = "patch"
    /\ i = num_patches
    /\ state' = Clamp(new_state)
    /\ state_obj' = <<"state", tidx>>
    /\ history' = AppendStep(history, Clamp(new_state))
    /\ tidx' = tidx + 1
    /\ pc' = "loop"
    /\ UNCHANGED <<config, y0_dict, new_state, new_state_obj, lambdas, deltas, i,
                   err, mode, ode>>

\* line 139: what simulate_discrete returns
ReturnValue == <<t_range, history>>

\* line 139: return t_range, history
Return ==
    /\ pc = "loop"
    /\ tidx >= Len(t_range)
    /\ pc' = "done"
    /\ UNCHANGED <<config, y0_dict, discrete, history, tidx, err, mode, ode>>

----------------------------------------------------------------------------
(* NetworkModel.simulate_ode as a process.  The solver is the caller's; it  *)
(* is modelled as the explicit Euler method on the time grid, which calls   *)
(* rhs once per grid interval and returns one row per grid point; it needs  *)
(* an initial time, so the grid is not empty.                               *)

\* line 149: y0 = [y0_dict[c] for c in self.all_compartments]
simulate_ode ==
    /\ pc = "start"
    /\ Len(t_range) >= 1
    /\ y' = Flatten(base, num_patches, y0_dict)
    /\ sol' = <<Flatten(base, num_patches, y0_dict)>>
    /\ tidx' = 1
    /\ mode' = "ode"
    /\ pc' = "solver"
    /\ UNCHANGED <<config, y0_dict, discrete, dydt, history, err>>

\* line 161, inside odesolver: the solver calls rhs(y, t)
RhsCall ==
    /\ pc = "solver"
    /\ tidx < Len(t_range)
    /\ LET r == rhs(base, num_patches, network, y)
       IN  IF r.err # ""
           THEN /\ Raise(r.err)
                /\ UNCHANGED dydt
           ELSE /\ dydt' = r.dydt
                /\ pc' = "advance"
                /\ err' = err
    /\ UNCHANGED <<config, y0_dict, discrete, history, tidx, mode, y, sol>>

\* line 161, inside odesolver: the solver's next row
SolverAdvance ==
    /\ pc = "advance"
    /\ y' = EulerStep(y, dydt, t_range[tidx + 1] - t_range[tidx])
    /\ sol' = Append(sol, EulerStep(y, dydt, t_range[tidx + 1] - t_range[tidx]))
    /\ tidx' = tidx + 1
    /\ pc' = "solver"
    /\ UNCHANGED <<config, y0_dict, discrete, dydt, history, mode, err>>

\* lines 161-165: the solver returns; history = {c: sol[:, i] ...}
OdeReturn ==
    /\ pc = "solver"
    /\ tidx = Len(t_range)
    /\ history' = Columns(base, num_patches, sol)
    /\ pc' = "done"
    /\ UNCHANGED <<config, y0_dict, discrete, dydt, tidx, mode, y, sol, err>>

Next ==
    \/ simulate_discrete
    \/ BeginStep
    \/ PatchStep
    \/ EndStep
    \/ Return
    \/ simulate_ode
    \/ RhsCall
    \/ SolverAdvance
    \/ OdeReturn

Spec == Init /\ [][Next]_vars

----------------------------------------------------------------------------
(* Simulation, the orchestrator: the mode is set at construction; a run     *)
(* dispatches on it and delegates to simulate_discrete of the NetworkModel  *)
(* or to the solver.                                                        *)

Modes == {"discrete", "ode", "euler", ""}

Simulations == [mode : Modes, network : BOOLEAN, odesolver : BOOLEAN]

\* The dispatch as a bug would have it: the solver is not looked at
DispatchUnchecked(s) ==
    IF s.mode = "discrete"
    THEN IF s.network THEN "simulate_discrete" ELSE "NotImplementedError"
    ELSE IF s.mode = "ode" THEN "odesolver"
    ELSE "UnknownMode"

\* what a run does first: the call it delegates to, or the error it raises
Dispatch(s) ==
    IF s.mode = "discrete"
    THEN IF s.network THEN "simulate_discrete" ELSE "NotImplementedError"
    ELSE IF s.mode = "ode"
    THEN IF s.odesolver THEN "odesolver" ELSE "MissingSolver"
    ELSE "UnknownMode"

SimInit ==
    /\ \E m \in {SIR(Half, Half), SIR(Half, Two)}, net \in Networks2,
          a \in PatchInits, b \in PatchInits, grid \in Grids :
          Start(m, net, <<a, b>>, grid)
    /\ sim \in Simulations
    /\ NoSeeding
    /\ NoFmd

\* mode "discrete" with a NetworkModel: delegates to simulate_discrete
RunDiscrete ==
    /\ Dispatch(sim) = "simulate_discrete"
    /\ simulate_discrete

\* mode "ode" with a solver: the solver is invoked
RunOde ==
    /\ Dispatch(sim) = "odesolver"
    /\ simulate_ode

\* misconfiguration: the run fails at once
RunFails ==
    /\ pc = "start"
    /\ Dispatch(sim) \notin {"simulate_discrete", "odesolver"}
    /\ Raise(Dispatch(sim))
    /\ UNCHANGED <<config, y0_dict, discrete, ode, history, tidx, mode>>

SimNext ==
    \/ RunDiscrete
    \/ RunOde
    \/ RunFails
    \/ BeginStep
    \/ PatchStep
    \/ EndStep
    \/ Return
    \/ RhsCall
    \/ SolverAdvance
    \/ OdeReturn

SimSpec == SimInit /\ [][SimNext]_vars

----------------------------------------------------------------------------
(* run_simulation: the patches are read, the seeds are applied, and the     *)
(* compartments S0, I0, R0 of every patch are set.                          *)

MaxSeeds == 2
MaxPopulation == 1

Min(a, b) == IF a <= b THEN a ELSE b
Max(a, b) == IF a >= b THEN a ELSE b

\* a patch is a dict; keys holds which of I0, S0, R0 are set
\* read_patch_population: {"region": ..., "N0": int(row["population"])}
Patch(region, population) ==
    [region |-> region, N0 |-> population, I0 |-> 0, S0 |-> 0, R0 |-> 0, keys |-> {}]

\* patch.get(key, default)
Get(patch, key, default) == IF key \in patch.keys THEN patch[key] ELSE default

\* the patch lists read: two regions, any populations
PatchLists ==
    { <<Patch("A", a), Patch("B", b)>> : a, b \in 0..MaxPopulation }

\* read_seeding_infection: {"region", "date", "seed_count": int(...)}; a seed
\* may name a region that is no patch, and may be dated before, at or after
\* the current date
Seeds ==
    [region : {"A", "B", "Z"}, date : 0..2, seed_count : 0..(MaxPopulation + 1)]

\* The seeding of a patch as a bug would have it: no cap
ApplySeedUncapped(patch, sd) ==
    LET infected == Get(patch, "I0", 0) + sd.seed_count
    IN  [patch EXCEPT !.I0 = infected,
                      !.S0 = Max(0, patch.N0 - infected),
                      !.keys = @ \cup {"I0", "S0"}]

\* io.py lines 138-140: the seed count is capped, I0 and S0 are set
ApplySeed(patch, sd) ==
    LET seed_count == Min(sd.seed_count, patch.N0 - Get(patch, "I0", 0))
        infected   == Get(patch, "I0", 0) + seed_count
    IN  [patch EXCEPT !.I0 = infected,
                      !.S0 = Max(0, patch.N0 - infected),
                      !.keys = @ \cup {"I0", "S0"}]

\* io.py lines 134-140: one pass of the loop over the seeds
apply_seeding_infections(ps, sd, date) ==
    IF sd.date <= date
    THEN [k \in 1..Len(ps) |->
             IF ps[k].region = sd.region THEN ApplySeed(ps[k], sd) ELSE ps[k]]
    ELSE ps

\* simulation.py lines 52-55
SetCompartments(patch) ==
    LET infected == Get(patch, "I0", 0)
    IN  [patch EXCEPT !.I0 = infected,
                      !.S0 = patch.N0 - infected,
                      !.R0 = Get(patch, "R0", 0),
                      !.keys = {"I0", "S0", "R0"}]

\* simulation.py lines 43-49: the input files are read; current_date is the
\* start date
SeedInit ==
    /\ Loaded(ExampleModel, <<<<One, Zero>>, <<Zero, One>>>>,
              <<ExampleInit, ExampleInit>>, <<0, 1>>)
    /\ sim = NoSimulation
    /\ patches \in PatchLists
    /\ seed = NoSeed
    /\ current_date = 1
    /\ seed_idx = 0
    /\ NoFmd
    /\ pc = "seeding"

engine == <<base, network, t_range, sim, y0_dict, discrete, ode, history, tidx,
            mode, fmd, err>>

\* io.py line 133: the next seed of the list
NextSeed ==
    /\ pc = "seeding"
    /\ seed_idx < MaxSeeds
    /\ \E sd \in Seeds :
          /\ seed' = sd
          /\ patches' = apply_seeding_infections(patches, sd, current_date)
    /\ seed_idx' = seed_idx + 1
    /\ UNCHANGED <<engine, current_date, pc>>

\* io.py lines 141-142: the list is exhausted
SeedingDone ==
    /\ pc = "seeding"
    /\ pc' = "seeded"
    /\ UNCHANGED <<engine, seeding>>

\* simulation.py lines 52-55: for patch in patches: I0, S0, R0 are set
UpdateCompartments ==
    /\ pc = "seeded"
    /\ patches' = [k \in 1..Len(patches) |-> SetCompartments(patches[k])]
    /\ pc' = "ready"
    /\ UNCHANGED <<engine, seed, current_date, seed_idx>>

SeedNext ==
    \/ NextSeed
    \/ SeedingDone
    \/ UpdateCompartments

SeedSpec == SeedInit /\ [][SeedNext]_vars

----------------------------------------------------------------------------
(* The SIRSV model of models/ka-fmd-sirsv-discrete.py: every vaccinated and *)
(* every recovered individual has a decay time; the random and the          *)
(* targetted variant differ in which decay times a vaccination round        *)
(* resets.  The Weibull draws are choices among the decay times.            *)

MaxDays == 3
MaxDecay == 1

\* (scale * np.random.weibull(shape, n)).astype(int): n times
DecayTimes == 0..MaxDecay

\* scale * np.random.weibull(shape): a time above zero
ResetTimes == 1..(MaxDecay + 1)

\* int(x) of a finite x: towards zero
Trunc(x) == IF x[1] >= 0 THEN x[1] \div x[2] ELSE -((-x[1]) \div x[2])

\* min(a, b): b if b < a, else a
PyMin(a, b) == IF RLt(b, a) THEN b ELSE a

\* S0, I0, R0, V0
Initials ==
    { <<2, 1, 0, 1>>, <<1, 1, 1, 1>>, <<3, 1, 0, 0>>, <<0, 0, 2, 2>>, <<0, 0, 0, 0>> }

\* lines 16-30: the params of a run
ParamSets ==
    { [variant |-> v, beta |-> One, gamma |-> Half, vax_rate |-> vr,
       days |-> n, seed_rate |-> Rat(sr, 1), vax_period |-> vp,
       vax_duration |-> vd, start_vax_day |-> sv,
       S0 |-> z[1], I0 |-> z[2], R0 |-> z[3], V0 |-> z[4]] :
        v \in {"random", "targetted"}, vr \in {Half, One}, n \in 2..MaxDays,
        sr \in {0, 1}, vp \in {1, 2}, vd \in {1, 2}, sv \in {0, 1, 2},
        z \in Initials }

\* line 31: N = S0 + I0 + R0 + V0
PopulationN == params.S0 + params.I0 + params.R0 + params.V0

\* np.zeros(days) with the initial value at index 0
Series(first, days) == [k \in 1..days |-> IF k = 1 THEN Rat(first, 1) ELSE Zero]

\* lines 31-45
FmdInit ==
    /\ Loaded(ExampleModel, <<<<One, Zero>>, <<Zero, One>>>>,
              <<ExampleInit, ExampleInit>>, <<0, 1>>)
    /\ sim = NoSimulation
    /\ NoSeeding
    /\ params \in ParamSets
    /\ \E vax \in [1..params.V0 -> DecayTimes], rec \in [1..params.R0 -> DecayTimes] :
          sirsv = [S |-> Series(params.S0, params.days),
                   I |-> Series(params.I0, params.days),
                   R |-> Series(params.R0, params.days),
                   V |-> Series(params.V0, params.days),
                   decay_times_vax |-> vax,
                   decay_times_rec |-> rec,
                   round_counter |-> 0,
                   t |-> 1,
                   new_seeds |-> Zero,
                   to_vaccinate |-> [bound |-> FALSE, v |-> Zero],
                   new_vaccinations |-> 0,
                   logged |-> {}]
    /\ pc = "day"

others == <<base, network, t_range, sim, seeding, y0_dict, discrete, ode,
            history, tidx, mode>>

\* int(x) of a value that is not finite
IntError(x) == IF IsNaN(x) THEN "ValueError" ELSE "OverflowError"

\* line 64: random.sample(range(len(times)), n)
RandomSelections(times, n) ==
    { idx \in SUBSET (1..Len(times)) : Cardinality(idx) = n }

\* lines 212-213: np.argsort(times)[:n], the n lowest times
TargettedSelections(times, n) ==
    { idx \in SUBSET (1..Len(times)) :
        /\ Cardinality(idx) = n
        /\ \A a \in idx : \A b \in (1..Len(times)) \ idx : times[a] <= times[b] }

Selections(times, n) ==
    IF params.variant = "random" THEN RandomSelections(times, n)
                                 ELSE TargettedSelections(times, n)

\* S[t - 1], I[t - 1], ...: the arrays are indexed from 0
Prev(series) == series[sirsv.t]

\* lines 53 and 78
RoundStarts ==
    \/ sirsv.t = params.start_vax_day
    \/ /\ sirsv.t > params.start_vax_day
       /\ (sirsv.t - params.start_vax_day) % params.vax_period = 0

IsVaxPeriod ==
    /\ sirsv.t >= params.start_vax_day
    /\ (sirsv.t - params.start_vax_day) % params.vax_period < params.vax_duration

\* lines 49-72: the next day begins; a vaccination round may start
VaccinationRound ==
    /\ pc = "day"
    /\ sirsv.t < params.days
    /\ LET new_seeds == PyMin(params.seed_rate, Prev(sirsv.S))
           reset == PyMin(RMul(RMul(params.vax_rate, Rat(params.vax_period, 1)),
                               Prev(sirsv.V)),
                          Prev(sirsv.V))
           begun == [sirsv EXCEPT
                        !.new_seeds = new_seeds,
                        !.round_counter = @ + 1,
                        !.to_vaccinate =
                            [bound |-> TRUE,
                             v |-> PyMin(RMul(params.vax_rate, Prev(sirsv.S)),
                                         Prev(sirsv.S))]]
       IN  IF ~RoundStarts
           THEN /\ sirsv' = [sirsv EXCEPT !.new_seeds = new_seeds]
                /\ pc' = "vaccinate"
                /\ err' = err
           ELSE IF ~IsFinite(reset)
           THEN /\ sirsv' = begun
                /\ Raise(IntError(reset))
           ELSE IF Trunc(reset) > 0 /\ Len(sirsv.decay_times_vax) > 0
           THEN /\ \E idx \in Selections(sirsv.decay_times_vax,
                                         Min(Trunc(reset), Len(sirsv.decay_times_vax))) :
                      \E fresh \in [idx -> ResetTimes] :
                         sirsv' = [begun EXCEPT !.decay_times_vax =
                                      [k \in 1..Len(@) |->
                                          IF k \in idx THEN fresh[k] ELSE @[k]]]
                /\ pc' = "vaccinate"
                /\ err' = err
           ELSE /\ sirsv' = begun
                /\ pc' = "vaccinate"
                /\ err' = err
    /\ UNCHANGED <<others, params>>

\* lines 78-96: the vaccinations of the day
Vaccinate ==
    /\ pc = "vaccinate"
    /\ IF ~IsVaxPeriod
       THEN /\ sirsv' = [sirsv EXCEPT !.new_vaccinations = 0]
            /\ pc' = "update"
            /\ err' = err
       ELSE IF ~sirsv.to_vaccinate.bound
       THEN /\ Raise("UnboundLocalError")
            /\ UNCHANGED sirsv
       ELSE IF ~IsFinite(sirsv.to_vaccinate.v)
       THEN /\ Raise(IntError(sirsv.to_vaccinate.v))
            /\ UNCHANGED sirsv
       ELSE LET new_vaccinations == Trunc(sirsv.to_vaccinate.v)
            IN  /\ IF new_vaccinations > 0
                   THEN \E times \in [1..new_vaccinations -> DecayTimes] :
                           sirsv' = [sirsv EXCEPT
                                        !.new_vaccinations = new_vaccinations,
                                        !.decay_times_vax = @ \o times]
                   ELSE sirsv' = [sirsv EXCEPT
                                     !.new_vaccinations = new_vaccinations,
                                     !.S[sirsv.t + 1] = Prev(sirsv.S),
                                     !.R[sirsv.t + 1] = Prev(sirsv.R),
                                     !.V[sirsv.t + 1] = Prev(sirsv.V)]
                /\ pc' = "update"
                /\ err' = err
    /\ UNCHANGED <<others, params>>

\* lines 99-110: infections and recoveries
UpdateDay ==
    /\ pc = "update"
    /\ LET new_infections ==
               RAdd(RDiv(RMul(RMul(params.beta, Prev(sirsv.S)), Prev(sirsv.I)),
                         Rat(PopulationN, 1)),
                    sirsv.new_seeds)
           new_recoveries == RMul(params.gamma, Prev(sirsv.I))
           vaccinated == Rat(sirsv.new_vaccinations, 1)
           updated == [sirsv EXCEPT
               !.S[sirsv.t + 1] = RSub(RSub(Prev(sirsv.S), new_infections), vaccinated),
               !.I[sirsv.t + 1] = RSub(RAdd(Prev(sirsv.I), new_infections),
                                       new_recoveries),
               !.R[sirsv.t + 1] = RAdd(Prev(sirsv.R), new_recoveries),
               !.V[sirsv.t + 1] = RAdd(Prev(sirsv.V), vaccinated)]
       IN  IF ~RLt(Zero, new_recoveries)
           THEN /\ sirsv' = updated
                /\ pc' = "waning"
                /\ err' = err
           ELSE IF ~IsFinite(new_recoveries)
           THEN /\ sirsv' = updated
                /\ Raise(IntError(new_recoveries))
           ELSE /\ \E times \in [1..Trunc(new_recoveries) -> DecayTimes] :
                      sirsv' = [updated EXCEPT !.decay_times_rec = @ \o times]
                /\ pc' = "waning"
                /\ err' = err
    /\ UNCHANGED <<others, params>>

\* [x - 1 for x in times if x > 0]
Decay(times) ==
    LET kept == SelectSeq(times, LAMBDA x : x > 0)
    IN  [k \in 1..Len(kept) |-> kept[k] - 1]

\* lines 115-129: immunity wanes, the waned are susceptible again
Waning ==
    /\ pc = "waning"
    /\ LET num_waned_vax == Len(sirsv.decay_times_vax) - Len(Decay(sirsv.decay_times_vax))
           num_waned_rec == Len(sirsv.decay_times_rec) - Len(Decay(sirsv.decay_times_rec))
       IN  sirsv' = [sirsv EXCEPT
               !.decay_times_vax = Decay(@),
               !.decay_times_rec = Decay(@),
               !.S[sirsv.t + 1] = RAdd(@, Rat(num_waned_vax + num_waned_rec, 1)),
               !.V[sirsv.t + 1] = RSub(@, Rat(num_waned_vax, 1)),
               !.R[sirsv.t + 1] = RSub(@, Rat(num_waned_rec, 1))]
    /\ pc' = "check"
    /\ UNCHANGED <<others, params, err>>

\* S[t] + I[t] + R[t] + V[t] for the day at index t of the arrays
TotalPopulation(t) ==
    RAdd(RAdd(RAdd(sirsv.S[t + 1], sirsv.I[t + 1]), sirsv.R[t + 1]), sirsv.V[t + 1])

\* np.isclose(a, b)
IsClose(a, b) == IsFinite(a) /\ a = b

\* lines 135-143: what the diagnosis of the day logs
Diagnosis ==
    (IF Rat(Len(sirsv.decay_times_vax), 1) # sirsv.V[sirsv.t + 1]
     THEN {"Length discrepancy"} ELSE {}) \cup
    (IF ~IsClose(TotalPopulation(sirsv.t), Rat(PopulationN, 1))
     THEN {"Population not conserved"} ELSE {}) \cup
    (IF \/ RLt(sirsv.S[sirsv.t + 1], Zero) \/ RLt(sirsv.I[sirsv.t + 1], Zero)
        \/ RLt(sirsv.R[sirsv.t + 1], Zero) \/ RLt(sirsv.V[sirsv.t + 1], Zero)
     THEN {"Negative compartment values"} ELSE {})

\* lines 131-149: the diagnosis; the day is over
Diagnose ==
    /\ pc = "check"
    /\ sirsv' = [sirsv EXCEPT !.logged = @ \cup Diagnosis, !.t = @ + 1]
    /\ pc' = "day"
    /\ UNCHANGED <<others, params, err>>

\* lines 151-153: return S, I, R, V
ReturnSeries ==
    /\ pc = "day"
    /\ sirsv.t >= params.days
    /\ pc' = "done"
    /\ UNCHANGED <<others, params, sirsv, err>>

FmdNext ==
    \/ VaccinationRound
    \/ Vaccinate
    \/ UpdateDay
    \/ Waning
    \/ Diagnose
    \/ ReturnSeries

FmdSpec == FmdInit /\ [][FmdNext]_vars

----------------------------------------------------------------------------
(* Properties *)

Patches == 0..(num_patches - 1)

Discrete == mode = "discrete"

\* x > 0 for a finite x
RGt0(x) == x[2] # 0 /\ x[1] > 0

\* the names a rate of m refers to that are no compartment, parameter or extra
AbsentNames(m) ==
    UNION { { m.transitions[k].rate[n] : n \in 1..Len(m.transitions[k].rate) } :
              k \in 1..Len(m.transitions) } \
    ({m.compartments[k] : k \in 1..Len(m.compartments)} \cup
     DOMAIN m.parameters \cup {"lambda_i"})


\* C1: whenever compute_transition_rates has returned, the keys of the deltas
\* mapping are exactly the declared compartments, each once, in declaration
\* order.
C1_DeltasKeysAreCompartments ==
    (Discrete /\ deltas # Unset) => DictKeys(deltas) = base.compartments

\* C1 witness: deltas were returned by a model whose transitions leave the
\* compartment R untouched and change I.
C1_Witness ==
    /\ Discrete
    /\ pc = "patch"
    /\ i = num_patches
    /\ Len(deltas) = 3
    /\ DictGet(deltas, "R") = Zero
    /\ DictGet(deltas, "S") # Zero

\* C2 (as claimed): if a rate of the base model refers to a name that is no
\* compartment, parameter or extra, compute_transition_rates never returns
\* deltas, and the run ends with the undefined-name error (NameError) with
\* new_state still equal to the pre-step state and no history entry appended.
C2_UndefinedNameAborts ==
    (Discrete /\ AbsentNames(base) # {}) =>
        /\ deltas = Unset
        /\ pc = "error" =>
              /\ err = "NameError"
              /\ new_state = state
              /\ \A key \in DOMAIN history : Len(history[key]) = tidx

\* the sum over j of network[i][j] * I_j / N_j, written from the formula
ForceSum(st, p) ==
    RSum([j \in 1..num_patches |->
            RDiv(RMul(network[p + 1][j], st[<<"I", j - 1>>]),
                 RSum([k \in 1..Len(base.compartments) |->
                         st[<<base.compartments[k], j - 1>>]]))])

\* C3: the force vector computed from a full state has one entry per patch,
\* in patch order, and entry i is the sum over j of network[i][j] * I_j / N_j.
C3_ForceOfInfectionFormula ==
    (Discrete /\ pc = "patch") =>
        /\ Len(lambdas) = num_patches
        /\ \A p \in Patches : lambdas[p + 1] = ForceSum(state, p)

\* C3 witness: two coupled patches of different totals, a finite non-zero
\* force on patch 0.
C3_Witness ==
    /\ Discrete
    /\ pc = "patch"
    /\ num_patches = 2
    /\ network[1][2] # Zero
    /\ PatchTotal(base, state, 0) # PatchTotal(base, state, 1)
    /\ RGt0(PatchTotal(base, state, 1))
    /\ RGt0(state[<<"I", 1>>])
    /\ RGt0(lambdas[1])

\* C4 (as claimed): compute_force_of_infection returns no force vector for a
\* state in which some patch's total is zero, in either mode.
C4_ZeroTotalIsAnError ==
    /\ (Discrete /\ pc = "patch") =>
          \A p \in Patches : PatchTotal(base, state, p) # Zero
    /\ (mode = "ode" /\ pc = "advance") =>
          \A p \in Patches :
              PatchTotal(base, Unflatten(base, num_patches, y), p) # Zero

\* the permutations of the patches
Orders ==
    { o \in [1..num_patches -> Patches] :
        \A a, b \in 1..num_patches : a # b => o[a] # o[b] }

\* the loop over the patches, run in the order given
RECURSIVE RunPatches(_, _, _, _, _)
RunPatches(ns, st, lam, order, k) ==
    IF k > Len(order) THEN ns
    ELSE RunPatches(PatchApply(base, ns, st, lam, order[k]).new_state,
                    st, lam, order, k + 1)

\* C5: inside a step the force vector is the one of the pre-step state; a
\* processed patch holds its pre-step value plus the delta computed from the
\* pre-step state and that vector, an unprocessed one its pre-step value; and
\* when the loop is over, the new state is the one every iteration order gives.
C5_SimultaneousUpdate ==
    (Discrete /\ pc = "patch") =>
        /\ lambdas =
              compute_force_of_infection(base, num_patches, network, state).lambdas
        /\ DOMAIN new_state = DOMAIN state
        /\ \A p \in Patches :
              IF p < i
              THEN \E d \in {compute_transition_rates(
                                 base, PatchState(base, state, p),
                                 [n \in {"lambda_i"} |-> ForceSum(state, p)]).deltas} :
                      \A k \in 1..Len(base.compartments) :
                         new_state[Key(base.compartments[k], p)] =
                             RAdd(state[Key(base.compartments[k], p)],
                                  DictGet(d, base.compartments[k]))
              ELSE \A k \in 1..Len(base.compartments) :
                      new_state[Key(base.compartments[k], p)] =
                          state[Key(base.compartments[k], p)]
        /\ i = num_patches =>
              \A o \in Orders : RunPatches(state, state, lambdas, o, 1) = new_state

\* C5 witness: the loop over two coupled patches is over and changed both.
C5_Witness ==
    /\ Discrete
    /\ pc = "patch"
    /\ i = num_patches
    /\ num_patches >= 2
    /\ network[1][2] # Zero
    /\ network[2][1] # Zero
    /\ new_state[<<"I", 0>>] # state[<<"I", 0>>]
    /\ new_state[<<"I", 1>>] # state[<<"I", 1>>]
    /\ \A p \in Patches : RGt0(lambdas[p + 1])

\* C6 (as claimed): after every step every value of the current state, and
\* the history value appended for the step, is >= 0.
C6_NonNegativeAfterStep ==
    (Discrete /\ tidx >= 2) =>
        \A key \in DOMAIN state :
            /\ RGe0(state[key])
            /\ RGe0(history[key][tidx])

\* the values of a deltas mapping, in order
DeltaValues(d) == [k \in 1..Len(d) |-> d[k][2]]

\* the deltas of the model that has the k-th transition of base only
SingleTransition(k, ps, extras) ==
    compute_transition_rates([base EXCEPT !.transitions = <<@[k]>>], ps, extras)

\* C7 (as claimed): the deltas of a model whose transitions all have both
\* ends sum to zero, and for each such transition taken alone
\* deltas[from] + deltas[to] = 0.
C7_DeltasSumToZero ==
    /\ (Discrete /\ deltas # Unset /\ Closed(base)) =>
          RSum(DeltaValues(deltas)) = Zero
    /\ (Discrete /\ pc = "patch") =>
          \A p \in Patches, k \in 1..Len(base.transitions) :
              LET tr == base.transitions[k]
                  r  == SingleTransition(k, PatchState(base, state, p),
                                         Extras(lambdas, p))
              IN  (tr.from # None /\ tr.to # None /\ r.err = "") =>
                      RAdd(DictGet(r.deltas, tr.from), DictGet(r.deltas, tr.to))
                          = Zero


ZeroNetwork ==
    \A a, b \in 1..num_patches : network[a][b] = Zero

PositiveTotals(st) ==
    \A p \in Patches : RGt0(PatchTotal(base, st, p))

\* the full state recorded in the history at grid point t
HistoryAt(t) == [key \in DOMAIN history |-> history[key][t]]

NoForce == [n \in {"lambda_i"} |-> Zero]

\* one discrete step of a single patch on its own: the base model's deltas
\* with lambda_i = 0, added and floored at zero
RECURSIVE SinglePatchRun(_, _)
SinglePatchRun(ps, steps) ==
    IF steps = 0 THEN ps
    ELSE LET prev == SinglePatchRun(ps, steps - 1)
             d    == compute_transition_rates(base, prev, NoForce).deltas
         IN  [c \in DOMAIN prev |->
                 LET v == RAdd(prev[c], DictGet(d, c))
                 IN  IF v[1] < 0 THEN Zero ELSE v]

\* C8: with an all-zero network and positive patch totals at every point
\* stepped from, every lambda_i is 0 and each patch's recorded trajectory is
\* that of a single-patch run of the base model with lambda_i = 0 from the
\* patch's own initial values; in ode mode the right-hand side of such a
\* state is, patch by patch, the base model's deltas with lambda_i = 0.
C8_ZeroCouplingDecouples ==
    /\ (Discrete /\ ZeroNetwork
          /\ \A t \in 1..(tidx - 1) : PositiveTotals(HistoryAt(t))) =>
          /\ (pc = "patch" /\ PositiveTotals(state)) =>
                \A p \in Patches : lambdas[p + 1] = Zero
          /\ \A key \in DOMAIN history : \A t \in 1..tidx :
                history[key][t] =
                    SinglePatchRun(PatchState(base, y0_dict, key[2]), t - 1)[key[1]]
    /\ (mode = "ode" /\ pc = "advance" /\ ZeroNetwork
          /\ PositiveTotals(Unflatten(base, num_patches, y))) =>
          \A k \in 1..Len(y) :
              LET key == all_compartments(base, num_patches)[k]
              IN  dydt[k] =
                      DictGet(compute_transition_rates(
                                  base,
                                  PatchState(base, Unflatten(base, num_patches, y),
                                             key[2]),
                                  NoForce).deltas,
                              key[1])

\* C8 witness: a finished two-step discrete run on a zero network of two
\* patches that started differently, with infection present and values
\* that moved.
C8_Witness ==
    /\ Discrete
    /\ pc = "done"
    /\ tidx = 3
    /\ num_patches = 2
    /\ ZeroNetwork
    /\ \A t \in 1..3 : PositiveTotals(HistoryAt(t))
    /\ y0_dict[<<"S", 0>>] # y0_dict[<<"S", 1>>]
    /\ RGt0(y0_dict[<<"I", 0>>])
    /\ RGt0(y0_dict[<<"I", 1>>])
    /\ history[<<"I", 0>>][2] # history[<<"I", 0>>][1]
    /\ history[<<"I", 0>>][3] # history[<<"I", 0>>][2]

IdenticalStart ==
    /\ num_patches = 2
    /\ \A k \in 1..Len(base.compartments) :
          y0_dict[<<base.compartments[k], 0>>] = y0_dict[<<base.compartments[k], 1>>]

SameTrajectories ==
    \A k \in 1..Len(base.compartments) :
        history[<<base.compartments[k], 0>>] = history[<<base.compartments[k], 1>>]

\* C9 (as claimed): two patches with identical initial values and a network
\* with network[0][1] = network[1][0] have identical trajectories.
C9_SymmetricNetworkSymmetricRun ==
    (Discrete /\ IdenticalStart /\ network[1][2] = network[2][1]) =>
        SameTrajectories

\* C9 (amended): two patches with identical initial values and a network
\* with network[0][1] = network[1][0] and network[0][0] = network[1][1]
\* have identical recorded trajectories.
C9_SymmetricEqualDiagonal ==
    (Discrete /\ IdenticalStart /\ network[1][2] = network[2][1]
        /\ network[1][1] = network[2][2]) =>
        SameTrajectories

\* C9 witness: a finished two-step run of two identical, mutually coupled
\* patches whose values moved.
C9_Witness ==
    /\ Discrete
    /\ pc = "done"
    /\ tidx = 3
    /\ IdenticalStart
    /\ network[1][2] = network[2][1]
    /\ network[1][2] # Zero
    /\ network[1][1] = network[2][2]
    /\ RGt0(history[<<"I", 0>>][3])
    /\ history[<<"I", 0>>][3] # history[<<"I", 0>>][1]
    /\ history[<<"S", 0>>][3] # history[<<"S", 0>>][2]

IsExample ==
    /\ base = ExampleModel
    /\ network = <<<<One, Zero>>, <<Zero, One>>>>
    /\ y0_dict = FullState(ExampleModel, <<ExampleInit, ExampleInit>>)

\* C10: in the example scenario (beta = 0.3, gamma = 0.1, S = 99, I = 1,
\* R = 0 in both patches, network [[1,0],[0,1]]) the first discrete step has
\* lambda_i = 1/100 for both patches and leaves S = 98.703, I = 1.197,
\* R = 0.1 in patch 0 and the same values in patch 1.
C10_ExampleFirstStep ==
    (Discrete /\ IsExample /\ tidx = 2) =>
        /\ lambdas = <<Rat(1, 100), Rat(1, 100)>>
        /\ \A p \in {0, 1} :
              /\ state[<<"S", p>>] = Rat(98703, 1000)
              /\ state[<<"I", p>>] = Rat(1197, 1000)
              /\ state[<<"R", p>>] = Rat(1, 10)
              /\ history[<<"S", p>>] = <<Rat(99, 1), Rat(98703, 1000)>>
              /\ history[<<"I", p>>] = <<One, Rat(1197, 1000)>>
              /\ history[<<"R", p>>] = <<Zero, Rat(1, 10)>>

\* C10 witness: the example run has returned after its first step.
C10_Witness ==
    /\ Discrete
    /\ IsExample
    /\ pc = "done"
    /\ tidx = 2

----------------------------------------------------------------------------
(* The history of a discrete run                                            *)

AllKeys == { all_compartments(base, num_patches)[k] :
               k \in 1..(num_patches * Len(base.compartments)) }

Finished == Discrete /\ pc = "done"

\* C11 (as claimed): a finished discrete run returns the grid with a history
\* over exactly the keys of all_compartments that holds, for every key, one
\* value per time point of the grid, the first being the initial value.
C11_OneValuePerTimePoint ==
    Finished =>
        /\ ReturnValue[1] = t_range
        /\ DOMAIN ReturnValue[2] = AllKeys
        /\ \A key \in AllKeys :
              /\ Len(ReturnValue[2][key]) = Len(t_range)
              /\ ReturnValue[2][key][1] = y0_dict[key]

\* the history of a running or finished discrete run: one value per key for
\* the initial state and one per step taken
HistoryShape ==
    (Discrete /\ pc \in {"loop", "patch", "done"}) =>
        /\ DOMAIN history = AllKeys
        /\ \A key \in AllKeys :
              /\ Len(history[key]) = tidx
              /\ history[key][1] = y0_dict[key]
        /\ pc = "done" =>
              /\ ReturnValue = <<t_range, history>>
              /\ tidx = IF Len(t_range) = 0 THEN 1 ELSE Len(t_range)

\* a step of a discrete run leaves the grid alone and either leaves the
\* history alone or appends exactly one value to every key
AppendOnly ==
    (Discrete /\ mode' = "discrete") =>
        /\ t_range' = t_range
        /\ DOMAIN history' = DOMAIN history
        /\ \/ history' = history /\ tidx' = tidx
           \/ /\ tidx' = tidx + 1
              /\ \A key \in DOMAIN history :
                    /\ Len(history'[key]) = Len(history[key]) + 1
                    /\ SubSeq(history'[key], 1, Len(history[key])) = history[key]

\* C11 (amended): a finished discrete run returns the grid it was given and a
\* history over exactly the keys of all_compartments; the history starts with
\* the initial value of every key and grows by exactly one value per key per
\* step, nothing once appended being changed or removed, so it ends with one
\* value per time point of a non-empty grid, and with the initial value alone
\* for the empty grid.
C11_HistoryAppendOnly == [](HistoryShape) /\ [][AppendOnly]_vars

\* a run of two steps whose history has three different values for some key
C11_Witness ==
    /\ Finished
    /\ Len(t_range) = 3
    /\ \E key \in AllKeys :
          /\ Len(history[key]) = 3
          /\ history[key][1] # history[key][2]
          /\ history[key][2] # history[key][3]

----------------------------------------------------------------------------
(* The ODE mode                                                             *)

Ode == mode = "ode"

NumKeys == num_patches * Len(base.compartments)

\* the vector dy holds at the position of every key <<c, p>> of
\* all_compartments the derivative of the key at the full state st: the delta
\* of c that the base model computes for patch p under the force of
\* infection of st
DerivativesInOrder(dy, st) ==
    \E lam \in {compute_force_of_infection(base, num_patches, network, st).lambdas} :
       \A p \in Patches :
          \E d \in {compute_transition_rates(base, PatchState(base, st, p),
                                             Extras(lam, p)).deltas} :
             \A k \in 1..NumKeys :
                all_compartments(base, num_patches)[k][2] = p =>
                   dy[k] = DictGet(d, all_compartments(base, num_patches)[k][1])

\* C12: the vector rhs returns to the solver has one entry per key of
\* all_compartments, the k-th being the derivative of the k-th key
\* (patch-major, then compartment declaration order); the initial vector and
\* the mapping of the solver's columns back to keys use the same order.
C12_RhsInAllCompartmentsOrder ==
    /\ (Ode /\ pc = "advance") =>
          /\ Len(dydt) = NumKeys
          /\ \A k \in 1..NumKeys :
                all_compartments(base, num_patches)[k] =
                    Key(base.compartments[((k - 1) % Len(base.compartments)) + 1],
                        (k - 1) \div Len(base.compartments))
          /\ DerivativesInOrder(dydt, Unflatten(base, num_patches, y))
    /\ Ode =>
          /\ Len(sol[1]) = NumKeys
          /\ \A k \in 1..NumKeys :
                sol[1][k] = y0_dict[all_compartments(base, num_patches)[k]]
    /\ (Ode /\ pc = "done") =>
          /\ DOMAIN history = AllKeys
          /\ \A k \in 1..NumKeys : \A row \in 1..Len(sol) :
                history[all_compartments(base, num_patches)[k]][row] = sol[row][k]

\* rhs has answered for two patches with derivatives that differ between the
\* compartments of a patch and between the patches
C12_Witness ==
    /\ Ode
    /\ pc = "advance"
    /\ num_patches = 2
    /\ Len(dydt) = NumKeys
    /\ dydt[1] # dydt[Len(base.compartments)]
    /\ dydt[1] # dydt[Len(base.compartments) + 1]

\* C13: the history simulate_ode returns is, key by key, the column of the
\* solver's matrix at the key's position in all_compartments, with as many
\* rows and no value changed, a negative one included; the values
\* simulate_discrete appends are never negative.
C13_OdeNotClamped ==
    /\ (Ode /\ pc = "done") =>
          \A k \in 1..NumKeys :
             LET column == history[all_compartments(base, num_patches)[k]]
             IN  /\ Len(column) = Len(sol)
                 /\ \A row \in 1..Len(sol) :
                       /\ column[row] = sol[row][k]
                       /\ RLt0(sol[row][k]) => RLt0(column[row])
    /\ (Discrete /\ history # Unset) =>
          \A key \in DOMAIN history : \A t \in 2..Len(history[key]) :
             ~RLt0(history[key][t])

\* the solver returned a negative value and it is in the returned history
C13_Witness ==
    /\ Ode
    /\ pc = "done"
    /\ \E k \in 1..NumKeys : \E row \in 1..Len(sol) :
          /\ RLt0(sol[row][k])
          /\ history[all_compartments(base, num_patches)[k]][row] = sol[row][k]

----------------------------------------------------------------------------
(* The environment of a rate                                                *)

Restrict(d, names) == [n \in names |-> d[n]]

\* the call compute_transition_rates(patch_state, extras) of the patch loop
InPatchCall == Discrete /\ pc = "patch" /\ i < num_patches

Colliding ==
    /\ DOMAIN Extras(lambdas, i) \cap DOMAIN base.parameters # {}
    /\ DOMAIN Extras(lambdas, i) \cap DOMAIN PatchState(base, state, i) # {}
    /\ DOMAIN base.parameters \cap DOMAIN PatchState(base, state, i) # {}

\* C14: in every call of the patch loop the environment holds every name of
\* the compartments, the parameters and the extras, an extra's value where
\* there is one, else a parameter's, else the compartment's; the deltas are
\* those of the same call with the overridden entries removed; and the
\* state, the parameters and the extras hold after the call what they held
\* before it.
C14_EnvironmentPrecedence ==
    InPatchCall =>
        LET st     == PatchState(base, state, i)
            extras == Extras(lambdas, i)
            own == base.parameters
            env    == LocalEnv(base, st, extras)
            after  == EnvObjects(base, st, extras)
            plain  == [base EXCEPT !.parameters =
                          Restrict(own, DOMAIN own \ DOMAIN extras)]
        IN  /\ DOMAIN env = DOMAIN st \cup DOMAIN own \cup DOMAIN extras
            /\ \A n \in DOMAIN env :
                  env[n] = IF n \in DOMAIN extras THEN extras[n]
                           ELSE IF n \in DOMAIN own THEN own[n]
                           ELSE st[n]
            /\ compute_transition_rates(base, st, extras) =
                  compute_transition_rates(plain,
                      Restrict(st, DOMAIN st \ (DOMAIN own \cup DOMAIN extras)),
                      extras)
            /\ after.state = st
            /\ after.parameters = own
            /\ after.extras = extras

\* a call in which all three collisions happen with different values, and
\* whose deltas are not zero
C14_Witness ==
    /\ InPatchCall
    /\ Colliding
    /\ LET st     == PatchState(base, state, i)
           extras == Extras(lambdas, i)
           r      == compute_transition_rates(base, st, extras)
       IN  /\ extras["lambda_i"] # base.parameters["lambda_i"]
           /\ extras["lambda_i"] # st["lambda_i"]
           /\ base.parameters["lambda_i"] # st["lambda_i"]
           /\ base.parameters["I"] # st["I"]
           /\ r.err = ""
           /\ \A c \in {"S", "I", "lambda_i"} : DictGet(r.deltas, c) # Zero

----------------------------------------------------------------------------
(* What a run leaves alone                                                  *)

\* C15: no step of simulate_discrete or simulate_ode, a step that raises
\* included, changes the network matrix, the base model's compartments,
\* parameters or transitions, or the caller's initial-state mapping.
C15_InputsUnchanged ==
    [][/\ network' = network
       /\ base'.compartments = base.compartments
       /\ base'.parameters = base.parameters
       /\ base'.transitions = base.transitions
       /\ y0_dict' = y0_dict]_vars

\* a discrete run that has written to its working copies and whose state has
\* moved away from the initial state
C15_Witness ==
    /\ Discrete
    /\ pc \in {"done", "error"}
    /\ tidx >= 2
    /\ new_state # y0_dict
    /\ state # y0_dict
    /\ state_obj # CallerObj
    /\ new_state_obj # CallerObj

----------------------------------------------------------------------------
(* The clamp and the patch totals                                           *)

\* the patch loop is over: new_state holds the pre-clamp values of the step
BeforeClamp == Discrete /\ pc = "patch" /\ i = num_patches

\* the step about to end leaves the total of patch p unchanged when none of
\* its pre-clamp values is negative, and makes it strictly larger otherwise
TotalKeptOrLarger(p) ==
    LET before == PatchTotal(base, state, p)
        after  == PatchTotal(base, Clamp(new_state), p)
    IN  IF \E k \in 1..Len(base.compartments) :
               RLt0(new_state[Key(base.compartments[k], p)])
        THEN RLt(before, after)
        ELSE after = before

\* C17 (as claimed): for a base model whose transitions all have both ends,
\* each step leaves every patch's total unchanged when no pre-clamp value of
\* the patch is negative and makes it strictly larger otherwise.
C17_TotalNeverDecreases ==
    (Closed(base) /\ BeforeClamp) => \A p \in Patches : TotalKeptOrLarger(p)

\* the same for the steps that start from positive patch totals
C17_FromPositiveTotals ==
    (Closed(base) /\ BeforeClamp /\ PositiveTotals(state)) =>
        \A p \in Patches : TotalKeptOrLarger(p)

----------------------------------------------------------------------------
(* The two modes side by side                                               *)

\* the steps of a discrete run that have been recorded: step t leads from
\* grid point t - 1 to grid point t
StepsTaken ==
    IF Discrete /\ pc \in {"loop", "patch", "done"} THEN 2..tidx ELSE {}

\* C18: a discrete step from a full state y with positive patch totals
\* yields, for the k-th key of all_compartments, max(y[k] + rhs(y)[k], 0),
\* rhs being the right-hand side simulate_ode hands to the solver (which does
\* not fail at y).
C18_DiscreteStepIsClampedEulerStep ==
    \A t \in StepsTaken :
       PositiveTotals(HistoryAt(t - 1)) =>
          \E yv \in {Flatten(base, num_patches, HistoryAt(t - 1))} :
             \E r \in {rhs(base, num_patches, network, yv)} :
                /\ r.err = ""
                /\ Len(r.dydt) = NumKeys
                /\ \A k \in 1..NumKeys :
                      history[all_compartments(base, num_patches)[k]][t] =
                          RMax0(RAdd(yv[k], r.dydt[k]))

\* a step from positive patch totals in which the Euler step went below zero
\* and the clamp acted, while another value moved
C18_Witness ==
    /\ Discrete
    /\ pc = "loop"
    /\ tidx = 2
    /\ PositiveTotals(HistoryAt(1))
    /\ \E key \in AllKeys : RLt0(new_state[key]) /\ history[key][2] = Zero
    /\ \E key \in AllKeys : RGt0(history[key][2]) /\ history[key][2] # history[key][1]

----------------------------------------------------------------------------
(* The time grid                                                            *)

\* position t of the history is the state one step after position t - 1,
\* computed from the base model and the network alone
StepFromPrevious(t) ==
    \E lam \in {compute_force_of_infection(base, num_patches, network,
                                            HistoryAt(t - 1)).lambdas} :
       \A p \in Patches :
          \E d \in {compute_transition_rates(base,
                         PatchState(base, HistoryAt(t - 1), p),
                         Extras(lam, p)).deltas} :
             \A k \in 1..Len(base.compartments) :
                history[Key(base.compartments[k], p)][t] =
                    RMax0(RAdd(history[Key(base.compartments[k], p)][t - 1],
                               DictGet(d, base.compartments[k])))

\* C19: the history of a discrete run starts with the initial state and holds
\* at every later position the state one step after the position before,
\* whatever the values and the spacing of the grid, so the history is
\* determined by the initial state and the number of points; a finished run
\* over a grid of k >= 1 points has taken exactly k - 1 steps.
C19_HistoryIndependentOfGridValues ==
    /\ (Discrete /\ history # Unset) =>
          /\ HistoryAt(1) = y0_dict
          /\ \A t \in 2..tidx : StepFromPrevious(t)
    /\ (Finished /\ Len(t_range) >= 1) =>
          /\ tidx - 1 = Len(t_range) - 1
          /\ \A key \in AllKeys : Len(history[key]) - 1 = Len(t_range) - 1

\* a finished run over a grid of two points that are two apart, in which the
\* one step taken has moved the state
C19_Witness ==
    /\ Finished
    /\ Len(t_range) = 2
    /\ t_range[2] - t_range[1] = 2
    /\ HistoryAt(2) # HistoryAt(1)
    /\ \A key \in AllKeys : IsFinite(history[key][2])

----------------------------------------------------------------------------
(* The orchestrator                                                         *)

\* no step of either mode has been executed
NoStepExecuted ==
    /\ mode = ""
    /\ tidx = 0
    /\ history = Unset
    /\ state = Unset
    /\ new_state = Unset
    /\ sol = Unset
    /\ dydt = Unset

FailsWith(e) == pc = "error" /\ err = e /\ NoStepExecuted

\* the run has left its first position
Dispatched == pc # "start"

\* C16: the mode of a Simulation never changes; once a run has dispatched,
\* mode "discrete" without a NetworkModel has failed with
\* NotImplementedError, mode "ode" without a solver with MissingSolver, and
\* every other mode with UnknownMode, in each case with no simulation step
\* executed; only the two well-configured cases run in their mode.
C16_ModeDispatch ==
    /\ [](Dispatched =>
            /\ (sim.mode = "discrete" /\ ~sim.network) =>
                  FailsWith("NotImplementedError")
            /\ (sim.mode = "ode" /\ ~sim.odesolver) => FailsWith("MissingSolver")
            /\ sim.mode \notin {"discrete", "ode"} => FailsWith("UnknownMode")
            /\ mode # "" => mode = sim.mode)
    /\ [][sim' = sim]_vars

\* a run in mode "ode" without a solver has failed, a NetworkModel being there
C16_Witness ==
    /\ pc = "error"
    /\ NoStepExecuted
    /\ sim.mode = "ode"
    /\ ~sim.odesolver
    /\ sim.network
    /\ err = "MissingSolver"

----------------------------------------------------------------------------
(* Seeding                                                                  *)

\* the patch has received a seed: only then does apply_seeding_infections
\* set I0
Seeded(patch) == "I0" \in patch.keys

WithinPopulation(patch) ==
    /\ 0 <= patch.I0
    /\ patch.I0 <= patch.N0
    /\ "S0" \in patch.keys
    /\ patch.S0 = patch.N0 - patch.I0

\* the seed sd does not apply: it is dated after the current date or names
\* a region that is no patch
NotApplicable(sd) ==
    \/ sd.date > current_date
    \/ \A k \in 1..Len(patches) : patches[k].region # sd.region

\* a seed has just been processed
SeedStep == pc = "seeding" /\ seed_idx' = seed_idx + 1

----------------------------------------------------------------------------
(* The SIRSV model                                                          *)

\* the days simulated so far, as indices of the arrays
SimulatedDays ==
    IF pc \in {"day", "done"} THEN 1..(sirsv.t - 1) ELSE {}

\* C21 (as claimed): after every simulated day t the total
\* S[t] + I[t] + R[t] + V[t] equals N = S0 + I0 + R0 + V0, in the random and
\* the targetted variant, and 'Population not conserved' is never logged.
C21_PopulationConserved ==
    /\ \A t \in SimulatedDays : TotalPopulation(t) = Rat(PopulationN, 1)
    /\ pc \in {"day", "done"} => "Population not conserved" \notin sirsv.logged

\* the same for the runs of a population that is not empty
C21_ConservedWhenNotEmpty ==
    PopulationN > 0 =>
        /\ \A t \in SimulatedDays : TotalPopulation(t) = Rat(PopulationN, 1)
        /\ pc \in {"day", "done"} => "Population not conserved" \notin sirsv.logged

\* a run of a population that is not empty in which, on one day, individuals
\* were vaccinated and immunity waned
C21_EventfulDay ==
    /\ pc = "day"
    /\ sirsv.t >= 2
    /\ PopulationN > 0
    /\ sirsv.new_vaccinations > 0
    /\ sirsv.S[sirsv.t] # sirsv.S[1]
    /\ RLt(sirsv.R[sirsv.t], RAdd(sirsv.R[1], RMul(params.gamma, sirsv.I[1])))
====
